---- MODULE Spec2Model ----
(***************************************************************************)
(* The code-to-image rendering pipeline of TurtleBench:                    *)
(*   utils/code_to_image.py      code_to_image (orchestrator, native path)  *)
(*   utils/code_to_image_svg.py  code_to_image_svg (headless path)          *)
(*   utils/sandbox.py            execute_combined_code (native assembler)   *)
(* A call of code_to_image is a process; the child it spawns with           *)
(* subprocess.run is a second process that shares the file system with      *)
(* every other call.  A caller is a thread of the harness.  Spec is the     *)
(* evaluation loop: one caller, one call after the other.  SpecConc is a    *)
(* parallel harness: every caller makes one call and the calls overlap.     *)
(***************************************************************************)
EXTENDS Integers, FiniteSets, Sequences, TLC

\* ------------------------------------------------------------------ bounds
NumCallers == 2
MaxCalls == 2
NumNames == 2
MaxStmts == 2

Callers == 1..NumCallers
CallIds == 1..MaxCalls
Names == 1..NumNames

\* Classes of drawing-script text, by what the two children do with them.
\*   valid       moves/turns a turtle, renders in both backends
\*   nativeonly  valid turtle code the vector backend cannot run
\*   malformed   random text / syntax error
\*   hang        `while True: pass`
\*   exit0       ends the interpreter itself with status 0 (sys.exit(0))
\*   none        falsy non-text input (None)
Kinds == {"valid", "nativeonly", "malformed", "hang", "exit0", "none"}

VARIABLES
    serial,   \* number of calls of code_to_image made so far
    id,       \* per caller: the number of its current call
    pc,       \* position of each call in code_to_image / code_to_image_svg
    task,     \* task_name of the call
    code,     \* class of piece_of_code of the call
    result,   \* what the call gave its caller: none, true, false, raised
    fs,       \* the file system: path -> content
    touched,  \* path -> current calls that wrote or deleted it (or their child)
    cst,      \* stage of the child process of the call
    crc,      \* returncode of the child
    cscript,  \* the script text the child loaded: its writer and class
    cimg,     \* drawing held by the native child after Image.open (0: none)
    svgOut,   \* how the headless attempt of the call ended
    natOut,   \* how the native attempt of the call ended
    tries,    \* per call: attempts and children started
    environ,  \* DISPLAY in os.environ of the harness process
    cenv,     \* DISPLAY in the environment the child of the call was given
    waited,   \* seconds the call was blocked in waits that ran into the timeout
    lp,       \* the evaluation loop of eval_dspy
    tx,       \* one use of the transformer and the assemblers on a text
    entry     \* per call: the function that was called

vars == <<serial, id, pc, task, code, result, fs, touched, cst, crc, cscript, cimg,
          svgOut, natOut, tries, environ, cenv, waited, lp, tx, entry>>

\* ------------------------------------------------------------------- paths
\* Mutant: the headless script path does not depend on the task name.
SvgScriptPathFixed(n) == <<"svg_file_path.py", 1>>

\* file_path = f"svg_file_path_{task_name}.py"
SvgScriptPath(n) == <<"svg_file_path.py", n>>

\* file_path = f"file_path_{task_name}.py"
NatScriptPath(n) == <<"file_path.py", n>>

\* png_file = os.path.join(save_path, f"{task_name}.png")
PngPath(n) == <<"png", n>>

\* jpg_file = os.path.join(f"{SAVE_DIR}", f"{task_name}.jpg")
JpgPath(n) == <<"jpg", n>>

\* canvas.postscript(file='ps_file.ps', ...): one fixed name in the cwd
PsPath(n) == <<"ps_file.ps", 0>>

Files == {SvgScriptPath(n) : n \in Names} \cup {NatScriptPath(n) : n \in Names}
         \cup {PngPath(n) : n \in Names} \cup {JpgPath(n) : n \in Names}
         \cup {PsPath(n) : n \in Names}

\* Content of a file: the call whose text or drawing it holds (w), the class
\* of that text (k) and who wrote it (by): the parent, the headless child or
\* the native child.
NoFile == [w |-> 0, k |-> "none", by |-> "none"]

Script(c) == [w |-> id[c], k |-> code[c], by |-> "parent"]

Image(w, by) == [w |-> w, k |-> "image", by |-> by]

Exists(f) == fs[f] # NoFile

\* open(f, "w").write(...) / a child writing f, on behalf of call c
WriteFile(c, f, content) ==
    /\ fs' = [fs EXCEPT ![f] = content]
    /\ touched' = [touched EXCEPT ![f] = @ \cup {id[c]}]

\* os.remove(f) of an existing file, on behalf of call c
RemoveFile(c, f) ==
    /\ fs' = [fs EXCEPT ![f] = NoFile]
    /\ touched' = [touched EXCEPT ![f] = @ \cup {id[c]}]

NoTries == [svg |-> 0, nat |-> 0, svgchild |-> 0, natchild |-> 0]

\* os.environ of the harness: DISPLAY is not set, or names a display.
Displays == {"unset", ":0"}

\* The loop and the text machine are not running.
LoopOff == [st |-> "off", n |-> 0, i |-> 0, solved |-> 0, task_type |-> "scratch",
            response |-> "none", written |-> 0, last |-> "none",
            current_accuracy |-> 0, final_accuracy |-> 0]

TextOff == [st |-> "off", arg |-> "text", code |-> <<>>, n |-> 1,
            fn |-> "none", screen |-> "", out |-> <<>>]

\* No call was made yet.
InitCalls ==
    /\ cenv = [c \in Callers |-> "none"]
    /\ waited = [c \in Callers |-> 0]
    /\ serial = 0
    /\ entry = [c \in Callers |-> "orchestrator"]
    /\ id = [c \in Callers |-> 0]
    /\ pc = [c \in Callers |-> "idle"]
    /\ task = [c \in Callers |-> 1]
    /\ code = [c \in Callers |-> "valid"]
    /\ result = [c \in Callers |-> "none"]
    /\ fs = [f \in Files |-> NoFile]
    /\ touched = [f \in Files |-> {}]
    /\ cst = [c \in Callers |-> "none"]
    /\ crc = [c \in Callers |-> 0]
    /\ cscript = [c \in Callers |-> NoFile]
    /\ cimg = [c \in Callers |-> 0]
    /\ svgOut = [c \in Callers |-> "none"]
    /\ natOut = [c \in Callers |-> "none"]
    /\ tries = [c \in Callers |-> NoTries]

Init ==
    /\ InitCalls
    /\ environ \in Displays
    /\ lp = LoopOff
    /\ tx = TextOff

childVars == <<cst, crc, cscript, cimg>>
fsVars == <<fs, touched>>
callVars == <<serial, id, task, code, environ, lp, tx, entry>>
auxVars == <<cenv, waited>>

\* ------------------------------------------------- code_to_image: entry
\* Two functions are named code_to_image: the orchestrator of
\* utils/code_to_image.py and the wrapper at the end of
\* utils/code_to_image_svg.py, which returns code_to_image_svg(piece_of_code,
\* task_name, save_path, remove_code_file) with remove_code_file=False.
Entries == {"orchestrator", "wrapper"}

\* code_to_image(piece_of_code, task_name, save_path) is called; its first
\* statement calls code_to_image_svg.
Invoke(c, codes, e) ==
    /\ pc[c] \in {"idle", "done"}
    /\ serial < MaxCalls
    /\ serial' = serial + 1
    /\ id' = [id EXCEPT ![c] = serial + 1]
    /\ \E n \in Names, k \in codes :
          /\ task' = [task EXCEPT ![c] = n]
          /\ code' = [code EXCEPT ![c] = k]
    /\ entry' = [entry EXCEPT ![c] = e]
    /\ pc' = [pc EXCEPT ![c] = "svg_asm"]
    /\ result' = [result EXCEPT ![c] = "none"]
    /\ svgOut' = [svgOut EXCEPT ![c] = "none"]
    /\ natOut' = [natOut EXCEPT ![c] = "none"]
    /\ tries' = [tries EXCEPT ![c] = [NoTries EXCEPT !.svg = 1]]
    /\ cst' = [cst EXCEPT ![c] = "none"]
    /\ crc' = [crc EXCEPT ![c] = 0]
    /\ cscript' = [cscript EXCEPT ![c] = NoFile]
    /\ cimg' = [cimg EXCEPT ![c] = 0]
    /\ cenv' = [cenv EXCEPT ![c] = "none"]
    /\ waited' = [waited EXCEPT ![c] = 0]
    /\ touched' = [f \in Files |-> touched[f] \ {id[c]}]
    /\ UNCHANGED <<fs, environ, tx>>

\* A call from any caller, with any argument.
CallStart(c) == Invoke(c, Kinds, "orchestrator") /\ UNCHANGED lp

\* A call of either function named code_to_image.
CallEither(c) == \E e \in Entries : Invoke(c, Kinds, e) /\ UNCHANGED lp

\* The evaluation loop: the one caller starts its next call when the call
\* before it has returned.
Sequential(c) == c = 1

\* A parallel harness: each caller makes one call, in the order of the callers.
Overlapping(c) == pc[c] = "idle" /\ serial = c - 1

\* The call has ended.
Done(c) == pc[c] = "done"

\* End of the call.
Return(c, r) ==
    /\ result' = [result EXCEPT ![c] = r]
    /\ pc' = [pc EXCEPT ![c] = "done"]

\* Mutant: a failed headless attempt ends the call, no fallback.
SvgFailedNoFallback(c, how) ==
    /\ svgOut' = [svgOut EXCEPT ![c] = how]
    /\ pc' = [pc EXCEPT ![c] = "done"]
    /\ UNCHANGED result

\* code_to_image_svg returns False: the orchestrator falls through to the
\* native attempt, the wrapper returns the False.
SvgFailed(c, how) ==
    /\ svgOut' = [svgOut EXCEPT ![c] = how]
    /\ IF entry[c] = "wrapper"
         THEN Return(c, "false")
         ELSE /\ pc' = [pc EXCEPT ![c] = "nat_clean"]
              /\ UNCHANGED result

\* (remove_code_file_always is a mutant: the flag is not looked at.)
remove_code_file_always(c) == TRUE

\* remove_code_file: True by default (the orchestrator passes nothing), False
\* from the wrapper.
remove_code_file(c) == entry[c] = "orchestrator"

\* ------------------------------------------- code_to_image_svg (headless)
\* execute_svg_code -> transform_turtle_to_svg: code.replace(...) raises on a
\* non-text argument; the try/except around it returns False.
SvgAssembleRaises(k) == k = "none"

SvgAssemble(c) ==
    /\ pc[c] = "svg_asm"
    /\ IF SvgAssembleRaises(code[c])
         THEN SvgFailed(c, "asmfail")
         ELSE /\ pc' = [pc EXCEPT ![c] = "svg_write"]
              /\ UNCHANGED <<svgOut, result>>
    /\ UNCHANGED <<callVars, fsVars, childVars, natOut, tries, auxVars>>

\* with open(file_path, "w") as file: file.write(svg_code)
SvgWrite(c) ==
    /\ pc[c] = "svg_write"
    /\ WriteFile(c, SvgScriptPath(task[c]), Script(c))
    /\ pc' = [pc EXCEPT ![c] = "svg_spawn"]
    /\ UNCHANGED <<callVars, result, childVars, svgOut, natOut, tries, auxVars>>

\* subprocess.run(["uv", "run", "python", file_path], timeout=20, ...):
\* the child starts, or the launch itself raises (caught by except Exception).
\* No env= is passed: the child inherits os.environ as it is.
SvgSpawn(c) ==
    /\ pc[c] = "svg_spawn"
    /\ \/ /\ cst' = [cst EXCEPT ![c] = "boot"]
          /\ crc' = [crc EXCEPT ![c] = 0]
          /\ cscript' = [cscript EXCEPT ![c] = NoFile]
          /\ cimg' = [cimg EXCEPT ![c] = 0]
          /\ tries' = [tries EXCEPT ![c].svgchild = @ + 1]
          /\ cenv' = [cenv EXCEPT ![c] = environ]
          /\ pc' = [pc EXCEPT ![c] = "svg_wait"]
          /\ UNCHANGED svgOut
       \/ /\ svgOut' = [svgOut EXCEPT ![c] = "launchfail"]
          /\ pc' = [pc EXCEPT ![c] = "svg_exc"]
          /\ UNCHANGED <<childVars, tries, cenv>>
    /\ UNCHANGED <<callVars, result, fsVars, natOut, waited>>

\* The 20 s pass before the child has exited: subprocess.run kills the child
\* and raises TimeoutExpired, which code_to_image_svg catches.
SvgTimeoutSecs == 20

SvgTimeout(c) ==
    /\ pc[c] = "svg_wait"
    /\ cst[c] \notin {"exited", "killed"}
    /\ cst' = [cst EXCEPT ![c] = "killed"]
    /\ svgOut' = [svgOut EXCEPT ![c] = "timeout"]
    /\ pc' = [pc EXCEPT ![c] = "svg_exc"]
    /\ waited' = [waited EXCEPT ![c] = @ + SvgTimeoutSecs]
    /\ UNCHANGED <<callVars, result, fsVars, crc, cscript, cimg, natOut, tries, cenv>>

\* except TimeoutExpired / except Exception:
\*   if remove_code_file and os.path.exists(file_path): os.remove(file_path)
\*   return False
SvgExcept(c) ==
    /\ pc[c] = "svg_exc"
    /\ IF remove_code_file(c) /\ Exists(SvgScriptPath(task[c]))
         THEN RemoveFile(c, SvgScriptPath(task[c]))
         ELSE UNCHANGED fsVars
    /\ SvgFailed(c, svgOut[c])
    /\ UNCHANGED <<callVars, childVars, natOut, tries, auxVars>>

\* subprocess.run has returned; if remove_code_file: os.remove(file_path).
\* os.remove of a missing file raises inside the try: except Exception.
SvgRemove(c) ==
    /\ pc[c] = "svg_wait"
    /\ cst[c] = "exited"
    /\ IF ~remove_code_file(c)
         THEN /\ pc' = [pc EXCEPT ![c] = "svg_check"]
              /\ UNCHANGED <<svgOut, fsVars>>
         ELSE IF Exists(SvgScriptPath(task[c]))
         THEN /\ RemoveFile(c, SvgScriptPath(task[c]))
              /\ pc' = [pc EXCEPT ![c] = "svg_check"]
              /\ UNCHANGED svgOut
         ELSE /\ svgOut' = [svgOut EXCEPT ![c] = "rmfail"]
              /\ pc' = [pc EXCEPT ![c] = "svg_exc"]
              /\ UNCHANGED fsVars
    /\ UNCHANGED <<callVars, result, childVars, natOut, tries, auxVars>>

\* if completed_process.returncode == 0: if os.path.exists(png_file): True
\* (SvgRenderedAnyRc is a mutant: the PNG alone decides.)
SvgRenderedAnyRc(c) == Exists(PngPath(task[c]))

SvgRendered(c) == crc[c] = 0 /\ Exists(PngPath(task[c]))

SvgCheck(c) ==
    /\ pc[c] = "svg_check"
    /\ IF SvgRendered(c)
         THEN /\ svgOut' = [svgOut EXCEPT ![c] = "rendered"]
              /\ Return(c, "true")
         ELSE SvgFailed(c, IF crc[c] = 0 THEN "nopng" ELSE "nonzero")
    /\ UNCHANGED <<callVars, fsVars, childVars, natOut, tries, auxVars>>

\* ------------------------------------- code_to_image: the native fallback
\* clean_code = insert_pensize_and_hideturtle(piece_of_code), in try/except:
\* an exception returns False.  (utils/code_analysis)
CleanMayRaise(k) == k \in {"malformed", "none"}

NatClean(c) ==
    /\ pc[c] = "nat_clean"
    /\ tries' = [tries EXCEPT ![c].nat = @ + 1]
    /\ \/ /\ pc' = [pc EXCEPT ![c] = "nat_svn"]
          /\ UNCHANGED <<result, natOut>>
       \/ /\ CleanMayRaise(code[c])
          /\ natOut' = [natOut EXCEPT ![c] = "cleanfail"]
          /\ Return(c, "false")
    /\ UNCHANGED <<callVars, fsVars, childVars, svgOut, auxVars>>

\* svn = find_screen_variable_name(clean_code), in try/except: an exception
\* returns False.  (utils/code_analysis)
ScreenVarMayRaise(k) == k \in {"malformed", "none"}

NatScreenVar(c) ==
    /\ pc[c] = "nat_svn"
    /\ \/ /\ pc' = [pc EXCEPT ![c] = "nat_asm"]
          /\ UNCHANGED <<result, natOut>>
       \/ /\ ScreenVarMayRaise(code[c])
          /\ natOut' = [natOut EXCEPT ![c] = "svnfail"]
          /\ Return(c, "false")
    /\ UNCHANGED <<callVars, fsVars, childVars, svgOut, tries, auxVars>>

\* code = execute_combined_code(...): open(post_code_address).read() and
\* .format(...) are not inside any try: a missing or malformed template raises
\* out of code_to_image.
NatAssemble(c) ==
    /\ pc[c] = "nat_asm"
    /\ \/ /\ pc' = [pc EXCEPT ![c] = "nat_write"]
          /\ UNCHANGED <<result, natOut>>
       \/ /\ natOut' = [natOut EXCEPT ![c] = "asmfail"]
          /\ Return(c, "raised")
    /\ UNCHANGED <<callVars, fsVars, childVars, svgOut, tries, auxVars>>

\* with open(file_path, "w") as file: file.write(code if code else "")
NatWrite(c) ==
    /\ pc[c] = "nat_write"
    /\ WriteFile(c, NatScriptPath(task[c]), Script(c))
    /\ pc' = [pc EXCEPT ![c] = "nat_spawn"]
    /\ UNCHANGED <<callVars, result, childVars, svgOut, natOut, tries, auxVars>>

\* env = os.environ.copy()
\* if 'DISPLAY' not in env: env['DISPLAY'] = ':99'
\* (ChildDisplayAlways is a mutant: DISPLAY is set to ':99' in every case.)
ChildDisplayAlways(e) == ":99"

ChildDisplay(e) == IF e = "unset" THEN ":99" ELSE e

\* subprocess.run(["uv", "run", "python", file_path], env=env, timeout=20),
\* outside any try: a launch failure raises out of code_to_image.
NatSpawn(c) ==
    /\ pc[c] = "nat_spawn"
    /\ \/ /\ cst' = [cst EXCEPT ![c] = "boot"]
          /\ crc' = [crc EXCEPT ![c] = 0]
          /\ cscript' = [cscript EXCEPT ![c] = NoFile]
          /\ cimg' = [cimg EXCEPT ![c] = 0]
          /\ tries' = [tries EXCEPT ![c].natchild = @ + 1]
          /\ cenv' = [cenv EXCEPT ![c] = ChildDisplay(environ)]
          /\ pc' = [pc EXCEPT ![c] = "nat_wait"]
          /\ UNCHANGED <<result, natOut>>
       \/ /\ natOut' = [natOut EXCEPT ![c] = "launchfail"]
          /\ Return(c, "raised")
          /\ UNCHANGED <<childVars, tries, cenv>>
    /\ UNCHANGED <<callVars, fsVars, svgOut, waited>>

\* The 20 s pass before the child has exited: subprocess.run kills the child
\* and raises TimeoutExpired; nothing in code_to_image catches it.
NatTimeoutResult == "raised"

\* (NatTimeoutSecsLong is a mutant: a longer budget for the native child.)
NatTimeoutSecsLong == 3 * 20

NatTimeoutSecs == 20

\* (NatTimeoutNoKill is a mutant: TimeoutExpired without the kill of the child.)
NatTimeoutNoKill(c) ==
    /\ pc[c] = "nat_wait"
    /\ cst[c] \notin {"exited", "killed"}
    /\ natOut' = [natOut EXCEPT ![c] = "timeout"]
    /\ Return(c, NatTimeoutResult)
    /\ waited' = [waited EXCEPT ![c] = @ + NatTimeoutSecs]
    /\ UNCHANGED <<callVars, fsVars, childVars, svgOut, tries, cenv>>

NatTimeout(c) ==
    /\ pc[c] = "nat_wait"
    /\ cst[c] \notin {"exited", "killed"}
    /\ cst' = [cst EXCEPT ![c] = "killed"]
    /\ natOut' = [natOut EXCEPT ![c] = "timeout"]
    /\ Return(c, NatTimeoutResult)
    /\ waited' = [waited EXCEPT ![c] = @ + NatTimeoutSecs]
    /\ UNCHANGED <<callVars, fsVars, crc, cscript, cimg, svgOut, tries, cenv>>

\* if completed_process.returncode == 0: os.remove(file_path); return True
\* else: return False
\* (NatSucceededAlways is a mutant: the return code is not looked at.)
NatSucceededAlways(c) == TRUE

NatSucceeded(c) == crc[c] = 0

NatCheck(c) ==
    /\ pc[c] = "nat_wait"
    /\ cst[c] = "exited"
    /\ IF NatSucceeded(c)
         THEN IF Exists(NatScriptPath(task[c]))
                THEN /\ RemoveFile(c, NatScriptPath(task[c]))
                     /\ natOut' = [natOut EXCEPT ![c] = "ok"]
                     /\ Return(c, "true")
                ELSE /\ natOut' = [natOut EXCEPT ![c] = "rmfail"]
                     /\ Return(c, "raised")
                     /\ UNCHANGED fsVars
         ELSE /\ natOut' = [natOut EXCEPT ![c] = "nonzero"]
              /\ Return(c, "false")
              /\ UNCHANGED fsVars
    /\ UNCHANGED <<callVars, childVars, svgOut, tries, auxVars>>

\* ------------------------------------------------------ the child process
Headless(c) == pc[c] = "svg_wait"
Native(c) == pc[c] = "nat_wait"

ChildExit(c, rc) ==
    /\ cst' = [cst EXCEPT ![c] = "exited"]
    /\ crc' = [crc EXCEPT ![c] = rc]

parentVars == <<pc, callVars, result, svgOut, natOut, tries>>

\* python file_path: the interpreter opens the script named on its command
\* line; a missing file ends it with a non-zero status.
ChildBoot(c) ==
    /\ Headless(c) \/ Native(c)
    /\ cst[c] = "boot"
    /\ LET f == IF Headless(c) THEN SvgScriptPath(task[c])
                               ELSE NatScriptPath(task[c])
       IN IF Exists(f)
            THEN /\ cscript' = [cscript EXCEPT ![c] = fs[f]]
                 /\ cst' = [cst EXCEPT ![c] = "body"]
                 /\ UNCHANGED crc
            ELSE /\ ChildExit(c, 1)
                 /\ UNCHANGED cscript
    /\ UNCHANGED <<parentVars, fsVars, cimg, auxVars>>

\* The header and the user code of the headless script run.
SvgChildBody(c) ==
    /\ Headless(c)
    /\ cst[c] = "body"
    /\ LET k == cscript[c].k
       IN \/ /\ k = "valid"
             /\ cst' = [cst EXCEPT ![c] = "convert"]
             /\ UNCHANGED crc
          \/ /\ k \in {"malformed", "nativeonly"}
             /\ ChildExit(c, 1)
          \/ /\ k = "exit0"
             /\ ChildExit(c, 0)
    /\ UNCHANGED <<parentVars, fsVars, cscript, cimg, auxVars>>

\* Footer of the headless script:
\*   png_file = os.path.join("{save_path}", f"{task_name}.png")
\*   try: cairosvg.svg2png(..., write_to=png_file, ...)
\*   except Exception as e: print(...)
\* the script ends with status 0 whether or not the PNG was written.
\* (SvgChildTargetJpg is a mutant: the footer writes the .jpg path.)
SvgChildTargetJpg(c) == JpgPath(task[c])

SvgChildTarget(c) == PngPath(task[c])

SvgChildConvert(c) ==
    /\ Headless(c)
    /\ cst[c] = "convert"
    /\ \/ WriteFile(c, SvgChildTarget(c), Image(cscript[c].w, "svg"))
       \/ UNCHANGED fsVars
    /\ ChildExit(c, 0)
    /\ UNCHANGED <<parentVars, cscript, cimg, auxVars>>

\* The header and the user code of the native script run; the turtle screen
\* needs a display, without one the script dies with a non-zero status.
NatChildBody(c) ==
    /\ Native(c)
    /\ cst[c] = "body"
    /\ LET k == cscript[c].k
       IN \/ /\ k \in {"valid", "nativeonly", "none"}
             /\ \/ /\ cst' = [cst EXCEPT ![c] = "postscript"]
                   /\ UNCHANGED crc
                \/ ChildExit(c, 1)
          \/ /\ k = "malformed"
             /\ ChildExit(c, 1)
          \/ /\ k = "exit0"
             /\ ChildExit(c, 0)
    /\ UNCHANGED <<parentVars, fsVars, cscript, cimg, auxVars>>

\* canvas.postscript(file='ps_file.ps', colormode='color')
NatChildPostscript(c) ==
    /\ Native(c)
    /\ cst[c] = "postscript"
    /\ WriteFile(c, PsPath(task[c]), Image(cscript[c].w, "nat"))
    /\ cst' = [cst EXCEPT ![c] = "open"]
    /\ UNCHANGED <<parentVars, crc, cscript, cimg, auxVars>>

\* img = Image.open('ps_file.ps'): raises when the file is not there.
NatChildOpen(c) ==
    /\ Native(c)
    /\ cst[c] = "open"
    /\ LET f == PsPath(task[c])
       IN IF Exists(f)
            THEN /\ cimg' = [cimg EXCEPT ![c] = fs[f].w]
                 /\ cst' = [cst EXCEPT ![c] = "save"]
                 /\ UNCHANGED crc
            ELSE /\ ChildExit(c, 1)
                 /\ UNCHANGED cimg
    /\ UNCHANGED <<parentVars, fsVars, cscript, auxVars>>

\* jpg_file = os.path.join(f"{SAVE_DIR}", f"{task_name}.jpg")
\* img.save(jpg_file, 'JPEG', quality=95)
NatChildTarget(c) == JpgPath(task[c])

NatChildSave(c) ==
    /\ Native(c)
    /\ cst[c] = "save"
    /\ WriteFile(c, NatChildTarget(c), Image(cimg[c], "nat"))
    /\ cst' = [cst EXCEPT ![c] = "cleanup"]
    /\ UNCHANGED <<parentVars, crc, cscript, cimg, auxVars>>

\* screen.bye(); os.remove('ps_file.ps'): raises when the file is not there.
NatChildCleanup(c) ==
    /\ Native(c)
    /\ cst[c] = "cleanup"
    /\ LET f == PsPath(task[c])
       IN IF Exists(f)
            THEN /\ RemoveFile(c, f)
                 /\ ChildExit(c, 0)
            ELSE /\ ChildExit(c, 1)
                 /\ UNCHANGED fsVars
    /\ UNCHANGED <<parentVars, cscript, cimg, auxVars>>

\* ---------------------------------------------------------- specifications
Step(c) ==
    \/ SvgAssemble(c)
    \/ SvgWrite(c)
    \/ SvgSpawn(c)
    \/ SvgTimeout(c)
    \/ SvgExcept(c)
    \/ SvgRemove(c)
    \/ SvgCheck(c)
    \/ NatClean(c)
    \/ NatScreenVar(c)
    \/ NatAssemble(c)
    \/ NatWrite(c)
    \/ NatSpawn(c)
    \/ NatTimeout(c)
    \/ NatCheck(c)
    \/ ChildBoot(c)
    \/ SvgChildBody(c)
    \/ SvgChildConvert(c)
    \/ NatChildBody(c)
    \/ NatChildPostscript(c)
    \/ NatChildOpen(c)
    \/ NatChildSave(c)
    \/ NatChildCleanup(c)

\* The evaluation loop: calls one after the other.
Next == \E c \in Callers : (Sequential(c) /\ CallStart(c)) \/ Step(c)

Spec == Init /\ [][Next]_vars

\* Calls one after the other, of the orchestrator or of the wrapper.
InitWrap == Init /\ environ = "unset"

NextWrap == \E c \in Callers : (Sequential(c) /\ CallEither(c)) \/ Step(c)

SpecWrap == InitWrap /\ [][NextWrap]_vars

\* subprocess.run blocks until the child exits or the timeout expires, and
\* every other step of a call is straight-line code: a call that can take a
\* step takes one.
Fairness == \A c \in Callers : WF_vars(Step(c))

SpecLive == Spec /\ Fairness

pipelineVars == <<serial, id, pc, task, code, result, fsVars, childVars,
                  svgOut, natOut, tries, environ, auxVars, entry>>

\* ------------------------------------------------ eval_dspy: the task loop
\* for task in subset: ... code_to_image(response_piece_of_code, task_name,
\* save_path=images_path). A missing response was replaced by "" and the
\* response went through str() and preprocess_response: the code is a text.
LoopKinds == Kinds \ {"none"}

\* task_type as given to eval_dspy; any other value leaves the subset empty.
TaskTypes == {"scratch", "tweak", "unsupported"}

Supported(task_type) == task_type \in {"scratch", "tweak"}

\* (forward_uncaught is a mutant: the exception leaves forward.)
forward_uncaught(task_type, fails) ==
    IF ~Supported(task_type) \/ fails THEN "raise" ELSE "turtle_code"

\* TurtleBenchDSPyAgent.forward: the whole body stands in try/except Exception,
\* which returns None; an unsupported task_type raises ValueError inside it.
\* fails: a prompt lookup, the watermarking or the predictor raises.
forward(task_type, fails) ==
    IF ~Supported(task_type) \/ fails THEN "None" ELSE "turtle_code"

\* response = agent(...); if response is None: response = ""; the response
\* file is written; code_to_image(response_piece_of_code, task_name, ...).
\* The empty text is code of class valid: it draws a blank canvas.
LoopCall ==
    /\ lp.st = "run"
    /\ lp.i < lp.n
    /\ \E fails \in BOOLEAN :
          IF forward(lp.task_type, fails) = "raise"
            THEN /\ lp' = [lp EXCEPT !.st = "agent_raised"]
                 /\ UNCHANGED <<pipelineVars, tx>>
            ELSE /\ Invoke(1, IF forward(lp.task_type, fails) = "None"
                                THEN {"valid"} ELSE LoopKinds, "orchestrator")
                 /\ lp' = [lp EXCEPT !.st = "call",
                                     !.response = forward(lp.task_type, fails),
                                     !.written = @ + 1]

\* current_accuracy = (solved_counter / (pbar.n + 1)) * 100 and
\* final_accuracy = solved_counter * 100 / len(subset), in whole percent.
Percent(solved, total) == (solved * 100) \div total

\* (LoopAccountAlways is a mutant: calculate_accuracy is called for every task.)
LoopAccountAlways ==
    /\ lp.st = "call"
    /\ Done(1)
    /\ result[1] \in {"true", "false"}
    /\ \E solved \in BOOLEAN :
          lp' = [lp EXCEPT !.st = "run", !.i = @ + 1,
                           !.last = IF solved THEN "solved" ELSE "unsolved",
                           !.solved = IF solved THEN @ + 1 ELSE @,
                           !.current_accuracy =
                               Percent(IF solved THEN lp.solved + 1 ELSE lp.solved,
                                       lp.i + 1)]
    /\ UNCHANGED <<pipelineVars, tx>>

\* if code_runnable: solved = calculate_accuracy(...); if solved:
\* solved_counter += 1; then current_accuracy, pbar.update(1), the next task.
LoopAccount ==
    /\ lp.st = "call"
    /\ Done(1)
    /\ result[1] \in {"true", "false"}
    /\ \E solved \in (IF result[1] = "true" THEN BOOLEAN ELSE {FALSE}) :
          lp' = [lp EXCEPT !.st = "run", !.i = @ + 1,
                           !.last = IF result[1] # "true" THEN "skipped"
                                    ELSE IF solved THEN "solved" ELSE "unsolved",
                           !.solved = IF solved THEN @ + 1 ELSE @,
                           !.current_accuracy =
                               Percent(IF solved THEN lp.solved + 1 ELSE lp.solved,
                                       lp.i + 1)]
    /\ UNCHANGED <<pipelineVars, tx>>

\* The call of code_to_image stands in no try: an exception that leaves it
\* leaves the for loop and eval_dspy.
LoopAbort ==
    /\ lp.st = "call"
    /\ Done(1)
    /\ result[1] = "raised"
    /\ lp' = [lp EXCEPT !.st = "aborted"]
    /\ UNCHANGED <<pipelineVars, tx>>

\* After the loop: final_accuracy = (solved_counter * 100 / len(subset)) if
\* len(subset) > 0 else 0; update_report(...); print.
LoopReport ==
    /\ lp.st = "run"
    /\ lp.i = lp.n
    /\ lp' = [lp EXCEPT !.st = "reported",
                        !.final_accuracy = IF lp.n > 0 THEN Percent(lp.solved, lp.n)
                                           ELSE 0]
    /\ UNCHANGED <<pipelineVars, tx>>

\* eval_dspy on a subset of lp.n tasks.
InitLoop ==
    /\ InitCalls
    /\ environ = "unset"
    /\ \E n \in 0..MaxCalls, task_type \in TaskTypes :
          /\ ~Supported(task_type) => n = 0
          /\ lp = [LoopOff EXCEPT !.st = "run", !.n = n, !.task_type = task_type]
    /\ tx = TextOff

NextLoop == LoopCall \/ Step(1) \/ LoopAccount \/ LoopAbort \/ LoopReport

SpecLoop == InitLoop /\ [][NextLoop]_vars

\* --------------------------------------------- texts of drawing scripts
\* A text is a sequence of tokens; every pattern of the transformer is a
\* sequence of whole tokens, and no pattern crosses a token any other way.
Statements ==
    { <<"import ", "turtle">>,
      <<"from ", "turtle", " import", " *">>,
      <<"t", " = ", "turtle", ".", "Turtle()">>,
      <<"pen", " = ", "turtle", ".", "Turtle()">>,
      <<"t", ".", "forward(100)">>,
      <<"t", ".", "right(90)">>,
      <<"turtle", ".", "forward(100)">>,
      <<"turtle", ".", "done()">>,
      <<"t", ".", "pensize(", "3)">>,
      <<"t", ".", "width(", "3)">>,
      <<"screen", " = ", "turtle", ".", "Screen()">> }

Separators == { <<"; ">>, <<"\n">> }

RECURSIVE TextsOf(_)
TextsOf(k) ==
    IF k = 0 THEN {<<>>}
    ELSE IF k = 1 THEN Statements
    ELSE {s \o sep \o t : s \in Statements, sep \in Separators, t \in TextsOf(k - 1)}

Texts == UNION {TextsOf(k) : k \in 0..MaxStmts}

\* pattern in text
Occurs(pattern, text) ==
    \E i \in 1..Len(text) :
        /\ i + Len(pattern) - 1 <= Len(text)
        /\ SubSeq(text, i, i + Len(pattern) - 1) = pattern

\* (replace_first is a mutant: only the first occurrence is replaced.)
RECURSIVE replace_first(_, _, _)
replace_first(text, old, new) ==
    IF Len(text) < Len(old) THEN text
    ELSE IF SubSeq(text, 1, Len(old)) = old
           THEN new \o SubSeq(text, Len(old) + 1, Len(text))
           ELSE <<Head(text)>> \o replace_first(Tail(text), old, new)

\* str.replace(old, new): every occurrence of old, found from left to right
\* without overlap, is replaced by new.
RECURSIVE replace(_, _, _)
replace(text, old, new) ==
    IF Len(text) < Len(old) THEN text
    ELSE IF SubSeq(text, 1, Len(old)) = old
           THEN new \o replace(SubSeq(text, Len(old) + 1, Len(text)), old, new)
           ELSE <<Head(text)>> \o replace(Tail(text), old, new)

\* (transformationsWithWidth is a mutant: '.width(' is rewritten as well.)
transformationsWithWidth ==
    << <<<<"import ", "turtle">>, <<"# ", "import ", "turtle">>>>,
       <<<<"from ", "turtle", " import">>, <<"# ", "from ", "turtle", " import">>>>,
       <<<<"t", " = ", "turtle", ".", "Turtle()">>,
         <<"# ", "t", " = ", "turtle", ".", "Turtle()">>>>,
       <<<<" = ", "turtle", ".", "Turtle()">>, <<" = ", "turtle", ".", "Turtle()">>>>,
       <<<<"turtle", ".", "Turtle()">>, <<"turtle", ".", "Turtle()">>>>,
       <<<<"turtle", ".">>, <<"t", ".">>>>,
       <<<<".", "done()">>, <<"# ", ".", "done()">>>>,
       <<<<".", "pensize(">>, <<".", "width(">>>>,
       <<<<".", "width(">>, <<".", "pensize(">>>> >>

\* transformations, in the order of the list: pairs (old, new).
transformations ==
    << <<<<"import ", "turtle">>, <<"# ", "import ", "turtle">>>>,
       <<<<"from ", "turtle", " import">>, <<"# ", "from ", "turtle", " import">>>>,
       <<<<"t", " = ", "turtle", ".", "Turtle()">>,
         <<"# ", "t", " = ", "turtle", ".", "Turtle()">>>>,
       <<<<" = ", "turtle", ".", "Turtle()">>, <<" = ", "turtle", ".", "Turtle()">>>>,
       <<<<"turtle", ".", "Turtle()">>, <<"turtle", ".", "Turtle()">>>>,
       <<<<"turtle", ".">>, <<"t", ".">>>>,
       <<<<".", "done()">>, <<"# ", ".", "done()">>>>,
       <<<<".", "pensize(">>, <<".", "width(">>>> >>

\* (ApplyFromStopEarly is a mutant: the loop ends after the fifth pair.)
RECURSIVE ApplyFromStopEarly(_, _)
ApplyFromStopEarly(transformed, i) ==
    IF i > 5 THEN transformed
    ELSE ApplyFromStopEarly(replace(transformed, transformations[i][1],
                                    transformations[i][2]), i + 1)

\* for old, new in transformations: transformed = transformed.replace(old, new)
RECURSIVE ApplyFrom(_, _)
ApplyFrom(transformed, i) ==
    IF i > Len(transformations) THEN transformed
    ELSE ApplyFrom(replace(transformed, transformations[i][1], transformations[i][2]),
                   i + 1)

\* What a function call gives: a text, or an exception.
Returned(text) == [ok |-> TRUE, text |-> text]
Raised == [ok |-> FALSE, text |-> <<>>]

\* (transform_strict is a mutant: a text in which nothing matched is refused.)
transform_strict(arg, text) ==
    IF arg = "None" \/ ApplyFrom(text, 1) = text THEN Raised
    ELSE Returned(ApplyFrom(text, 1))

\* transform_turtle_to_svg(code): the argument is None (arg = "None"), which
\* has no replace method, or the text.
transform_turtle_to_svg(arg, text) ==
    IF arg = "None" THEN Raised ELSE Returned(ApplyFrom(text, 1))

\* pre_code and post_code of execute_svg_code; post_code is an f-string over
\* save_path and task_name.
pre_code == <<"from svg_turtle import SvgTurtle ... ", "t = SvgTurtle(800, 600)\n">>

post_code(n) ==
    <<"\nsvg_data = t.to_svg()\npng_file = ", "save_path/", ToString(n), ".png",
      "\ncairosvg.svg2png(svg_data, png_file)\n">>

\* (execute_svg_code_nobody is a mutant: the user code is left out.)
execute_svg_code_nobody(arg, text, n) ==
    IF transform_turtle_to_svg(arg, text).ok
      THEN Returned(pre_code \o post_code(n))
      ELSE Raised

\* execute_svg_code(code, save_path, task_name):
\* return pre_code + transform_turtle_to_svg(code) + post_code
execute_svg_code(arg, text, n) ==
    IF transform_turtle_to_svg(arg, text).ok
      THEN Returned(pre_code \o transform_turtle_to_svg(arg, text).text \o post_code(n))
      ELSE Raised

\* pre_json_code and the formatted template of execute_combined_code:
\* post_code_with_screen_name.txt for a screen variable, else post_code.txt.
pre_json_code == <<"import subprocess\nimport os\nfrom math import *\n",
                   "import utils.rabbit as rabbit\n\n">>

ScreenNames == {"", "screen"}

post_json_code(screen, n) ==
    <<IF screen = "" THEN "\nscreen = turtle.Screen()" ELSE "\n" \o screen,
      ".getcanvas().postscript(file='ps_file.ps')\njpg_file = ",
      "save_path/", ToString(n), ".jpg",
      "\nImage.open('ps_file.ps').save(jpg_file, 'JPEG')\n">>

\* execute_combined_code(code, screen_variable_name, save_path, task_name):
\* pre_json_code + (code if code else "") + post_json_code
execute_combined_code(arg, text, screen, n) ==
    Returned(pre_json_code \o (IF arg = "None" THEN <<>> ELSE text)
                          \o post_json_code(screen, n))

\* One application of a function of this file to one argument: the argument.
InitText ==
    /\ InitCalls
    /\ environ = "unset"
    /\ lp = LoopOff
    /\ \E n \in Names, a \in {"text", "None"} :
          \E t \in (IF a = "None" THEN {<<>>} ELSE Texts) :
              tx = [st |-> "input", arg |-> a, code |-> t, n |-> n,
                    fn |-> "none", screen |-> "", out |-> <<>>]

\* The function returns a text or raises.
Outcome(fn, screen, r) ==
    /\ tx.st = "input"
    /\ tx' = [tx EXCEPT !.st = IF r.ok THEN "returned" ELSE "raised",
                        !.fn = fn, !.screen = screen, !.out = r.text]
    /\ UNCHANGED <<pipelineVars, lp>>

RunTransform == Outcome("transform", "", transform_turtle_to_svg(tx.arg, tx.code))

RunSvgAssemble == Outcome("svg", "", execute_svg_code(tx.arg, tx.code, tx.n))

RunCombine ==
    \E screen \in ScreenNames :
        Outcome("native", screen, execute_combined_code(tx.arg, tx.code, screen, tx.n))

\* find_screen_variable_name(clean_code): the name of the variable that
\* holds turtle.Screen(), or nothing.  (utils/code_analysis)
find_screen_variable_name(text) ==
    IF Occurs(<<"screen", " = ", "turtle", ".", "Screen()">>, text) THEN "screen" ELSE ""

\* The assembly step of the native attempt of code_to_image, on clean_code:
\* svn = find_screen_variable_name(clean_code)
\* code = execute_combined_code(clean_code, svn, save_path, task_name)
RunNativeAttempt ==
    /\ tx.arg = "text"
    /\ Outcome("native_attempt", find_screen_variable_name(tx.code),
               execute_combined_code(tx.arg, tx.code,
                                     find_screen_variable_name(tx.code), tx.n))

NextText == RunTransform \/ RunSvgAssemble \/ RunCombine \/ RunNativeAttempt

SpecText == InitText /\ [][NextText]_vars

\* Callers that overlap.
NextConc == \E c \in Callers : (Overlapping(c) /\ CallStart(c)) \/ Step(c)

InitConc == Init /\ environ = "unset"

SpecConc == InitConc /\ [][NextConc]_vars

TypeOK ==
    /\ pc \in [Callers -> {"idle", "svg_asm", "svg_write", "svg_spawn", "svg_wait",
                         "svg_exc", "svg_check", "nat_clean", "nat_svn",
                         "nat_asm", "nat_write", "nat_spawn", "nat_wait", "done"}]
    /\ task \in [Callers -> Names]
    /\ code \in [Callers -> Kinds]
    /\ result \in [Callers -> {"none", "true", "false", "raised"}]
    /\ serial \in 0..MaxCalls
    /\ id \in [Callers -> 0..MaxCalls]
    /\ \A f \in Files : fs[f].w \in 0..MaxCalls /\ touched[f] \subseteq CallIds
    /\ crc \in [Callers -> {0, 1}]
    /\ \A c \in Callers : cscript[c].w \in 0..MaxCalls
    /\ cimg \in [Callers -> 0..MaxCalls]
    /\ environ \in Displays
    /\ entry \in [Callers -> Entries]
    /\ cenv \in [Callers -> {"none", "unset", ":0", ":99"}]
    /\ waited \in [Callers -> 0..(SvgTimeoutSecs + NatTimeoutSecs)]
    /\ lp.st \in {"off", "run", "call", "aborted", "reported"}
    /\ lp.task_type \in TaskTypes /\ lp.written \in 0..MaxCalls
    /\ lp.response \in {"none", "None", "turtle_code"}
    /\ lp.last \in {"none", "skipped", "unsolved", "solved"}
    /\ lp.n \in 0..MaxCalls /\ lp.i \in 0..lp.n /\ lp.solved \in 0..lp.i
    /\ tx.st \in {"off", "input", "returned", "raised"}
    /\ tx.arg \in {"text", "None"} /\ tx.n \in Names
    /\ tx.fn \in {"none", "transform", "svg", "native", "native_attempt"}
    /\ tx.screen \in {"", "screen"}
    /\ tx.code \in Texts

\* ------------------------------------------------------------ properties
TimedOut(c) == svgOut[c] = "timeout" \/ natOut[c] = "timeout"

\* C1: code_to_image ends by returning True or False and never lets an
\* exception reach its caller, whatever the outcome of each step.
NeverRaises == \A c \in Callers : result[c] # "raised"

\* C2: when the child of a backend attempt exceeds the timeout (in the
\* headless attempt, in the native attempt or in both), code_to_image
\* returns False.
TimeoutReturnsFalse ==
    \A c \in Callers : (Done(c) /\ TimedOut(c)) => result[c] = "false"

\* C3: after a call whose child timed out has ended, no temporary script of
\* that call (svg_file_path_{task_name}.py, file_path_{task_name}.py) is left.
TimeoutLeavesNoScript ==
    \A c \in Callers :
        (Done(c) /\ TimedOut(c)) =>
            /\ ~Exists(SvgScriptPath(task[c]))
            /\ ~Exists(NatScriptPath(task[c]))

\* C4: whenever code_to_image returns True the image exists at the expected
\* path (.png for a headless success, .jpg for a native success); a child exit
\* code of 0 without that file never yields True.
TrueImpliesImage ==
    \A c \in Callers :
        (Done(c) /\ result[c] = "true") =>
            /\ svgOut[c] = "rendered" => Exists(PngPath(task[c]))
            /\ natOut[c] = "ok" => Exists(JpgPath(task[c]))

\* C5: in every call the headless attempt runs first and exactly once; the
\* native fallback is attempted if and only if the headless attempt did not
\* end in Rendered, at most once, and no native child is started once the
\* headless attempt has succeeded.
FallbackDiscipline ==
    \A c \in Callers :
        /\ tries[c].svg = (IF pc[c] = "idle" THEN 0 ELSE 1)
        /\ tries[c].svgchild <= 1 /\ tries[c].nat <= 1 /\ tries[c].natchild <= 1
        /\ tries[c].natchild <= tries[c].nat
        /\ tries[c].nat = 1 => svgOut[c] \notin {"none", "rendered"}
        /\ svgOut[c] = "rendered" => (tries[c].nat = 0 /\ tries[c].natchild = 0)
        /\ (Done(c) /\ svgOut[c] # "rendered") => tries[c].nat = 1
        /\ pc[c] \in {"nat_svn", "nat_asm", "nat_write", "nat_spawn", "nat_wait"}
              => tries[c].nat = 1

\* A headless attempt failed with a non-zero exit and the one native attempt
\* that followed ran a child and succeeded.
FallbackWitness ==
    \E c \in Callers :
        /\ Done(c) /\ svgOut[c] = "nonzero" /\ natOut[c] = "ok"
        /\ tries[c] = [svg |-> 1, nat |-> 1, svgchild |-> 1, natchild |-> 1]

\* C6: for valid turtle code, once code_to_image has completed with a rendered
\* image, {save_path}/{task_name}.jpg exists.
ValidCodeYieldsJpg ==
    \A c \in Callers :
        (Done(c) /\ code[c] = "valid" /\ result[c] = "true") =>
            Exists(JpgPath(task[c]))

\* C7: the output location is determined by the backend that rendered: a
\* headless success leaves the image at .png, a native rendering leaves it at
\* .jpg, and neither backend writes the other's path.
NatRenderedNow(c) ==
    /\ pc[c] \in {"nat_wait", "done"}
    /\ tries[c].natchild = 1
    /\ cst[c] \in {"cleanup", "exited"}
    /\ cimg[c] # 0

Started(c) == pc[c] # "idle"

DistinctNames ==
    \A c, d \in Callers : (Started(c) /\ Started(d) /\ c # d) => task[c] # task[d]

InProgress(i) == \E c \in Callers : id[c] = i /\ pc[c] \notin {"idle", "done"}

NoInterference ==
    DistinctNames =>
        \A f \in Files : Cardinality({i \in touched[f] : InProgress(i)}) <= 1

\* C9: concurrent calls with the same task name can corrupt each other's
\* artifacts: a child runs the script another call wrote, or finds its script
\* already deleted, and this happens only between calls of the same task name;
\* nothing detects it.
ForeignScript(c) == cscript[c].w \notin {0, id[c]}

ScriptGone(c) ==
    /\ Started(c)
    /\ tries[c].svgchild + tries[c].natchild > 0
    /\ cst[c] = "exited"
    /\ cscript[c] = NoFile

SameNameOther(c) ==
    \E d \in Callers : d # c /\ Started(d) /\ task[d] = task[c]

CorruptionNeedsSameName ==
    \A c \in Callers :
        /\ ForeignScript(c) =>
              \E d \in Callers : d # c /\ id[d] = cscript[c].w /\ task[d] = task[c]
        /\ ScriptGone(c) => SameNameOther(c)

\* One call has returned True although its child ran the other call's script,
\* and the other call's child found the script deleted.
CorruptionWitness ==
    \E c, d \in Callers :
        /\ c # d /\ task[c] = task[d]
        /\ cscript[c].w = id[d] /\ result[c] = "true"
        /\ ScriptGone(d)

\* C10: the temporary script of an attempt is deleted when the attempt's
\* child exits with code 0, and file_path_{task_name}.py is left on disk when
\* the native child exits with a non-zero code.
SvgChildExited(c, rc) ==
    \/ pc[c] = "svg_check" /\ crc[c] = rc
    \/ svgOut[c] \in (IF rc = 0 THEN {"rendered", "nopng"} ELSE {"nonzero"})

NatChildExited(c, rc) ==
    /\ Done(c)
    /\ tries[c].natchild = 1
    /\ cst[c] = "exited"
    /\ crc[c] = rc

ScriptRetention ==
    \A c \in Callers :
        /\ SvgChildExited(c, 0) => ~Exists(SvgScriptPath(task[c]))
        /\ NatChildExited(c, 0) => ~Exists(NatScriptPath(task[c]))
        /\ NatChildExited(c, 1) => fs[NatScriptPath(task[c])] = Script(c)

\* A native child has exited with a non-zero code and its script is on disk,
\* after the headless child of the same call exited with 0 without a PNG.
ScriptRetentionWitness ==
    \E c \in Callers :
        /\ svgOut[c] = "nopng" /\ NatChildExited(c, 1)
        /\ fs[NatScriptPath(task[c])] = Script(c)

\* C11: a backend attempt whose child exits with a non-zero code or times
\* out is never counted as a success, even when a file is present at the
\* expected output path: a call that returned True ended in an attempt whose
\* child exited with code 0.
Active(c) == pc[c] \notin {"idle", "done"}

FailedChild(out) == out \in {"nonzero", "timeout"}

FailedChildNeverSuccess ==
    \A c \in Callers :
        /\ result[c] = "true" => (cst[c] = "exited" /\ crc[c] = 0)
        /\ (Done(c) /\ FailedChild(natOut[c])) => result[c] # "true"
        /\ (FailedChild(svgOut[c]) /\ result[c] = "true") => natOut[c] = "ok"

\* Both attempts of a call failed with a child that timed out or exited with
\* a non-zero code, while the PNG of an earlier call with the same task name
\* was at the output path.
StaleOutputWitness ==
    \E c \in Callers :
        /\ Done(c) /\ FailedChild(svgOut[c]) /\ FailedChild(natOut[c])
        /\ Exists(PngPath(task[c])) /\ fs[PngPath(task[c])].w # id[c]
        /\ result[c] # "true"

\* C12: every call of code_to_image eventually ends, also when a child never
\* exits on its own, and no child started by the call is still running after
\* the call has ended.
ChildGone(c) == cst[c] \in {"none", "exited", "killed"}

CallsEnd ==
    /\ \A c \in Callers : Active(c) ~> Done(c)
    /\ [](\A c \in Callers : Done(c) => ChildGone(c))

\* A call on code that never ends has ended, its last child killed.
HangEndedWitness ==
    \E c \in Callers :
        Done(c) /\ code[c] = "hang" /\ cst[c] = "killed" /\ tries[c].natchild = 1

\* C13 as stated: for a script that hangs, the caller is blocked for at most
\* one timeout period, counted over both backend attempts.
HangBlockedOnePeriod ==
    \A c \in Callers : code[c] = "hang" => waited[c] <= SvgTimeoutSecs

\* C13: for a script that hangs, the caller is blocked for at most two
\* timeout periods, one for each backend attempt.
HangBlockedTwoPeriods ==
    \A c \in Callers : code[c] = "hang" => waited[c] <= 2 * SvgTimeoutSecs

\* A call on a script that hangs waited for both timeouts.
HangBlockedWitness ==
    \E c \in Callers :
        Done(c) /\ code[c] = "hang" /\ waited[c] = SvgTimeoutSecs + NatTimeoutSecs

\* C20: the native child gets the parent's DISPLAY when the parent has one
\* and DISPLAY=':99' only when the parent has none; the headless child gets
\* the parent's environment as it is; the parent's environment never changes.
HeadlessChildRunning(c) == tries[c].svgchild = 1 /\ tries[c].natchild = 0

NativeChildStarted(c) == tries[c].natchild = 1

ChildEnvironment ==
    /\ [](\A c \in Callers :
            /\ HeadlessChildRunning(c) => cenv[c] = environ
            /\ (NativeChildStarted(c) /\ environ # "unset") => cenv[c] = environ
            /\ (NativeChildStarted(c) /\ environ = "unset") => cenv[c] = ":99")
    /\ [][environ' = environ]_vars

\* A native child was started with DISPLAY=':99' by a parent without DISPLAY,
\* after the headless child of the same call ran without it.
ChildEnvironmentWitness ==
    \E c \in Callers :
        /\ environ = "unset" /\ tries[c].svgchild = 1
        /\ NativeChildStarted(c) /\ cenv[c] = ":99"

\* C14: in the loop of eval_dspy a task whose code fails to render is only
\* left out of the solved count: the run never aborts because of one task,
\* the tasks are processed one after the other, each exactly once, and the
\* report is written after the last one.
LoopNeverAborts ==
    /\ lp.st # "aborted"
    /\ lp.st \in {"run", "reported"} => (serial = lp.i /\ ~Active(1))
    /\ lp.st = "reported" => lp.i = lp.n
    /\ lp.solved <= lp.i

\* C15: the transformer's output is equivalent to its input as a drawing:
\* every drawing statement of the input is an executed statement of the
\* output, also when it shares a line with `t = turtle.Turtle()` or
\* `turtle.done()`.
DrawingCalls == {"forward(100)", "right(90)", "width(", "pensize("}

DrawingCall(token) == IF token = "pensize(" THEN "width(" ELSE token

\* The drawing calls a text executes: "# " starts a comment that ends with
\* the line.
RECURSIVE Executed(_, _)
Executed(text, comment) ==
    IF text = <<>> THEN <<>>
    ELSE IF Head(text) = "# " THEN Executed(Tail(text), TRUE)
    ELSE IF Head(text) = "\n" THEN Executed(Tail(text), FALSE)
    ELSE IF Head(text) \in DrawingCalls /\ ~comment
           THEN <<DrawingCall(Head(text))>> \o Executed(Tail(text), comment)
           ELSE Executed(Tail(text), comment)

Transformed == tx.fn = "transform" /\ tx.st = "returned"

DrawingPreserved ==
    Transformed => Executed(tx.out, FALSE) = Executed(tx.code, FALSE)

\* C16: transform_turtle_to_svg is total on texts (it returns a text and
\* never raises, also when no pattern matches), its output is the value of a
\* function of its argument, and it changes no state outside its argument.
IsText(text) == \A i \in 1..Len(text) : text[i] \in STRING

RewrittenPatterns ==
    { <<"import ", "turtle">>, <<"from ", "turtle", " import">>, <<"turtle", ".">>,
      <<".", "done()">>, <<".", "pensize(">> }

HeadlessCompatible(text) == \A pattern \in RewrittenPatterns : ~Occurs(pattern, text)

FixedPoint ==
    (Transformed /\ HeadlessCompatible(tx.code)) => tx.out = tx.code

\* Two statements without any of the patterns came back as they were.
FixedPointWitness ==
    /\ Transformed /\ HeadlessCompatible(tx.code)
    /\ Occurs(<<".", "width(">>, tx.code) /\ Occurs(<<".", "forward(100)">>, tx.code)
    /\ tx.out = tx.code

\* C18: both assemblers accept empty or falsy user code (the empty string,
\* None) without raising and return a complete script with an empty body.
Falsy == tx.arg = "None" \/ tx.code = <<>>

AssemblersAcceptFalsy ==
    /\ (tx.fn = "svg" /\ Falsy) =>
          (tx.st = "returned" /\ tx.out = pre_code \o post_code(tx.n))
    /\ (tx.fn = "native" /\ Falsy) =>
          (tx.st = "returned" /\ tx.out = pre_json_code \o post_json_code(tx.screen, tx.n))

\* C19: the script an assembler returns is header + user code + footer in
\* that order, the (transformed) user code once between the two, and only the
\* footer depends on save_path and task_name.
PathTokens == {"save_path/"} \cup {ToString(n) : n \in Names}

InOrder(script, header, body, footer) ==
    /\ Len(script) = Len(header) + Len(body) + Len(footer)
    /\ SubSeq(script, 1, Len(header)) = header
    /\ SubSeq(script, Len(header) + 1, Len(header) + Len(body)) = body
    /\ SubSeq(script, Len(header) + Len(body) + 1, Len(script)) = footer
    /\ \A i \in 1..(Len(header) + Len(body)) : script[i] \notin PathTokens
    /\ \A n \in Names : (ToString(n) \in {footer[i] : i \in 1..Len(footer)}) <=> n = tx.n

HeaderCodeFooter ==
    /\ (tx.fn = "svg" /\ tx.st = "returned") =>
          InOrder(tx.out, pre_code, ApplyFrom(tx.code, 1), post_code(tx.n))
    /\ (tx.fn = "native" /\ tx.st = "returned") =>
          InOrder(tx.out, pre_json_code, IF tx.arg = "None" THEN <<>> ELSE tx.code,
                  post_json_code(tx.screen, tx.n))

\* Both assemblers are seen on code the transformer rewrites: the headless
\* script holds the rewritten code, the native script the code as given.
HeaderCodeFooterWitness ==
    /\ tx.st = "returned" /\ tx.fn \in {"svg", "native"}
    /\ Occurs(<<"turtle", ".", "forward(100)">>, tx.code)
    /\ Occurs(<<"turtle", ".", "forward(100)">>, tx.out) <=> tx.fn = "native"

\* C21: a missing or malformed template of the native backend fails only
\* that attempt: code_to_image returns False and no exception reaches the
\* caller.
TemplateFailureConfined ==
    \A c \in Callers : (Done(c) /\ natOut[c] = "asmfail") => result[c] = "false"

\* C24: the code_to_image of utils/code_to_image_svg.py falls back to the
\* native backend when the headless attempt fails, and so gives what the
\* orchestrator gives.
WrapperFallsBack ==
    \A c \in Callers :
        (Done(c) /\ entry[c] = "wrapper" /\ svgOut[c] # "rendered") =>
            (tries[c].nat = 1 /\ natOut[c] # "none")

\* C27: when code_to_image_svg returns True, the PNG at the output path was
\* written by the child of this call.
RenderedByOwnChild ==
    \A c \in Callers :
        svgOut[c] = "rendered" => fs[PngPath(task[c])] = Image(id[c], "svg")

\* C29: with remove_code_file=True the headless script does not exist when
\* code_to_image_svg returns after it ran the child (success, non-zero exit,
\* missing PNG, timeout, other exception); with remove_code_file=False
\* code_to_image_svg never deletes it.
SvgReturned(c) == svgOut[c] \notin {"none", "asmfail"} /\ pc[c] # "svg_exc"

ScriptRemovedByFlag ==
    \A c \in Callers :
        SvgReturned(c) =>
            IF entry[c] = "orchestrator"
              THEN ~Exists(SvgScriptPath(task[c]))
              ELSE fs[SvgScriptPath(task[c])] = Script(c)

\* A call of the wrapper has ended after a timeout, its script on disk, while
\* the call of the orchestrator before it had left none.
ScriptRemovedByFlagWitness ==
    \E c \in Callers :
        /\ Done(c) /\ entry[c] = "wrapper" /\ svgOut[c] = "timeout"
        /\ fs[SvgScriptPath(task[c])] = Script(c)
        /\ id[c] = 2
        /\ \A n \in Names : n # task[c] => ~Exists(SvgScriptPath(n))

\* C25: calculate_accuracy is called for a task only when code_to_image
\* returned a truthy value, and solved_counter is incremented only when both
\* are truthy; solved_counter is at most the number of tasks processed, the
\* running and the final accuracy lie in [0, 100], and the final accuracy of an
\* empty subset is 0.
Scored == lp.last \in {"solved", "unsolved"}

AccuracyBounds ==
    /\ (lp.st \in {"run", "reported"} /\ Scored) => result[1] = "true"
    /\ lp.solved <= lp.i /\ lp.i <= lp.n
    /\ lp.current_accuracy \in 0..100
    /\ lp.final_accuracy \in 0..100
    /\ (lp.st = "reported" /\ lp.n = 0) => lp.final_accuracy = 0
    /\ (lp.st = "reported" /\ lp.n > 0) => lp.final_accuracy * lp.n <= lp.solved * 100

\* A run was reported in which one task was solved and the last one did not
\* render.
AccuracyWitness ==
    /\ lp.st = "reported" /\ lp.n >= 2
    /\ lp.solved = 1 /\ lp.last = "skipped" /\ result[1] = "false"
    /\ lp.final_accuracy > 0 /\ lp.final_accuracy < 100

\* C26: forward never raises: on any exception, an unsupported task_type
\* included, it returns None; the loop replaces None by the empty string,
\* writes the response file and calls code_to_image for that task.
AgentFailureHandled ==
    /\ \A task_type \in TaskTypes, fails \in BOOLEAN :
          /\ forward(task_type, fails) \in {"None", "turtle_code"}
          /\ (~Supported(task_type) \/ fails) => forward(task_type, fails) = "None"
    /\ lp.st # "agent_raised"
    /\ lp.st = "call" => (lp.written = lp.i + 1 /\ serial = lp.i + 1)
    /\ (lp.st = "call" /\ lp.response = "None") => (code[1] = "valid" /\ Started(1))
    /\ lp.st \in {"run", "reported"} => (lp.written = lp.i /\ serial = lp.i)

\* The task of a None response went through code_to_image and was accounted.
AgentFailureWitness ==
    lp.st = "run" /\ lp.i = 1 /\ lp.response = "None" /\ lp.written = 1 /\ Done(1)

\* C22: the footer an assembler appends is determined by the backend alone
\* and never by the user code: every user code assembled for the same
\* backend gets the same footer (up to save_path and task_name).
FooterOf(script, header, body) ==
    SubSeq(script, Len(header) + Len(body) + 1, Len(script))

FooterByBackendOnly ==
    /\ (tx.fn = "svg" /\ tx.st = "returned") =>
          FooterOf(tx.out, pre_code, ApplyFrom(tx.code, 1)) = post_code(tx.n)
    /\ (tx.fn = "native_attempt" /\ tx.st = "returned") =>
          \A other \in Texts :
              FooterOf(tx.out, pre_json_code, tx.code) =
                  post_json_code(find_screen_variable_name(other), tx.n)

\* C23: the output of the transformer contains no '.pensize(' and each of
\* its '.done()' is directly preceded by '# '.
DoneCommented(text) ==
    \A i \in 1..Len(text) :
        (text[i] = "." /\ i < Len(text) /\ text[i + 1] = "done()") =>
            (i > 1 /\ text[i - 1] = "# ")

PensizeAndDoneRewritten ==
    Transformed => (~Occurs(<<".", "pensize(">>, tx.out) /\ DoneCommented(tx.out))

\* A text with '.pensize(' and '.done()' was transformed.
PensizeAndDoneWitness ==
    /\ Transformed
    /\ Occurs(<<".", "pensize(">>, tx.code) /\ Occurs(<<".", "done()">>, tx.code)
    /\ Occurs(<<".", "width(">>, tx.out) /\ Occurs(<<"# ", ".", "done()">>, tx.out)

\* C28: the transformer is idempotent: its output is a fixed point.
Idempotent == Transformed => ApplyFrom(tx.out, 1) = tx.out

\* C30: the output of the transformer contains no 'turtle.'.
NoModuleQualifier == Transformed => ~Occurs(<<"turtle", ".">>, tx.out)

\* Two statements with 'turtle.' were transformed, one of them the creation
\* of the turtle, which the third pair comments out before the sixth.
NoModuleQualifierWitness ==
    /\ Transformed
    /\ Occurs(<<"t", " = ", "turtle", ".", "Turtle()">>, tx.code)
    /\ Occurs(<<"turtle", ".", "forward(100)">>, tx.code)
    /\ Occurs(<<"# ", "t", " = ", "t", ".", "Turtle()">>, tx.out)

====
